---- MODULE Spec2Model ----
(***************************************************************************)
(* Place discovery of google-places-review-insights: the tile-center grid  *)
(* (src/geo.py), the tiled nearby collection (src/places_collector.py),    *)
(* the text-query collection (src/text_search_collector.py) and the two    *)
(* entry points that drive them (src/pipeline.py, app.py).                 *)
(*                                                                         *)
(* Numbers.  Python floats are modelled as fixed-point integers:           *)
(*   lengths  ("_m" names)  in hundredths of a metre,                      *)
(*   angles   (lat, lon)    in millionths of a degree,                     *)
(*   miles                  in hundred-thousandths of a mile.              *)
(* Every product is divided back with truncation toward zero (MulDiv), so  *)
(* conversions lose precision the way float arithmetic does, only coarser. *)
(* round(x, 5) therefore rounds an angle to a multiple of 10 units.        *)
(***************************************************************************)
EXTENDS Integers, Sequences, FiniteSets, TLC

NoneV == "None"

Abs(x) == IF x < 0 THEN -x ELSE x

Min2(a, b) == IF a <= b THEN a ELSE b

\* a * n / d, truncated toward zero
MulDiv(a, n, d) == IF a < 0 THEN -(((-a) * n) \div d) ELSE (a * n) \div d

(***************************************************************************)
(* src/geo.py                                                              *)
(***************************************************************************)

\* mi * 1609.344
miles_to_meters(mi) == MulDiv(mi, 1609344, 1000000)

\* (m / EARTH_RADIUS_M) * (180 / pi): 1 m = 8.9932e-6 degrees
meters_to_lat_deg(m) == MulDiv(m, 89932, 1000000)

\* math.cos(math.radians(lat)) in thousandths, for the latitudes the model
\* uses: the equator, 60 degrees and the pole (where the float cosine is
\* 6e-17, below every precision kept here).
cos_milli(lat_deg) ==
    LET whole == (Abs(lat_deg) + 500000) \div 1000000
    IN  CASE whole = 0  -> 1000
          [] whole = 60 -> 500
          [] whole = 90 -> 0

\* (m / (EARTH_RADIUS_M * max(0.000001, cos))) * (180 / pi)
meters_to_lon_deg(m, at_lat_deg) ==
    LET c == cos_milli(at_lat_deg)
    IN  IF c = 0
        THEN m * 89932
        ELSE MulDiv(m, 89932, 1000 * c)

\* round(a, 5): nearest multiple of 10 units, ties to the even multiple
round5(a) ==
    LET q == a \div 10
        r == a % 10
    IN  IF r < 5 THEN q
        ELSE IF r > 5 THEN q + 1
        ELSE IF q % 2 = 0 THEN q ELSE q + 1

\* dy = (cur_lat - lat) * (pi/180) * EARTH_RADIUS_M
planar_dy(cur_lat, lat) == MulDiv(cur_lat - lat, 111195, 10000)

\* dx = (cur_lon - lon) * (pi/180) * EARTH_RADIUS_M * cos(radians(lat))
planar_dx(cur_lon, lon, lat) ==
    MulDiv(MulDiv(cur_lon - lon, cos_milli(lat), 1000), 111195, 10000)

\* (dx*dx + dy*dy) <= r2
in_circle(cur_lat, cur_lon, lat, lon, radius_m) ==
    LET dy == planar_dy(cur_lat, lat)
        dx == planar_dx(cur_lon, lon, lat)
    IN  dx * dx + dy * dy <= radius_m * radius_m

\* step_m = tile_radius_m * 1.5
step_m(tile_radius_m) == MulDiv(tile_radius_m, 3, 2)

\* the inner while loop: cur_lon from its current value up to lon_max
RECURSIVE lon_loop(_, _, _, _, _, _)
lon_loop(cur_lat, cur_lon, lat, lon, radius_m, dlon) ==
    IF cur_lon > lon + meters_to_lon_deg(radius_m, lat)
    THEN << >>
    ELSE (IF in_circle(cur_lat, cur_lon, lat, lon, radius_m)
          THEN << <<cur_lat, cur_lon>> >>
          ELSE << >>)
         \o lon_loop(cur_lat, cur_lon + dlon, lat, lon, radius_m, dlon)

\* the outer while loop: cur_lat from its current value up to lat_max
RECURSIVE lat_loop(_, _, _, _, _, _)
lat_loop(cur_lat, lat, lon, radius_m, dlat, dlon) ==
    IF cur_lat > lat + meters_to_lat_deg(radius_m)
    THEN << >>
    ELSE lon_loop(cur_lat, lon - meters_to_lon_deg(radius_m, lat),
                  lat, lon, radius_m, dlon)
         \o lat_loop(cur_lat + dlat, lat, lon, radius_m, dlat, dlon)

round_key(c) == <<round5(c[1]), round5(c[2])>>

\* The dict built by "for a, b in centers: uniq[key] = (a, b)": a key sits
\* where it was first inserted and holds the last value written under it.
\* first_writes: the positions of centers that insert a new key, in order.
first_writes(centers) ==
    SelectSeq([i \in 1..Len(centers) |-> i],
              LAMBDA i : \A j \in 1..(i - 1) :
                            round_key(centers[j]) # round_key(centers[i]))

\* last_write keeping the first value written under a key
last_write_first(centers, i) == i

\* last_write: the last position of centers that writes under the key of i
last_write(centers, i) ==
    CHOOSE j \in i..Len(centers) :
        /\ round_key(centers[j]) = round_key(centers[i])
        /\ \A k \in (j + 1)..Len(centers) :
               round_key(centers[k]) # round_key(centers[i])

\* dedup_rounded returning the centers as they are
dedup_rounded_none(centers) == centers

\* list(uniq.values()) after the for loop over centers
dedup_rounded(centers) ==
    LET firsts == first_writes(centers)
    IN  [n \in 1..Len(firsts) |-> centers[last_write(centers, firsts[n])]]

\* the grid points kept, then the center itself
grid_centers(lat, lon, radius_m, tile_radius_m) ==
    LET dlat == meters_to_lat_deg(step_m(tile_radius_m))
        dlon == meters_to_lon_deg(step_m(tile_radius_m), lat)
    IN  Append(lat_loop(lat - meters_to_lat_deg(radius_m), lat, lon,
                        radius_m, dlat, dlon),
               <<lat, lon>>)

\* generate_tile_centers comparing with < in place of <=
generate_tile_centers_strict(lat, lon, radius_m, tile_radius_m) ==
    IF radius_m < tile_radius_m
    THEN << <<lat, lon>> >>
    ELSE dedup_rounded(grid_centers(lat, lon, radius_m, tile_radius_m))

generate_tile_centers(lat, lon, radius_m, tile_radius_m) ==
    IF radius_m <= tile_radius_m
    THEN << <<lat, lon>> >>
    ELSE dedup_rounded(grid_centers(lat, lon, radius_m, tile_radius_m))

(***************************************************************************)
(* int(x) of a length: whole metres (app.py)                               *)
(***************************************************************************)
int_m(x) == (x \div 100) * 100

(***************************************************************************)
(* src/text_search_collector.py: haversine_m                               *)
(***************************************************************************)

\* the integer square root, searched between max(|a|,|b|) and |a|+|b|
hypot(a, b) ==
    LET lo == IF Abs(a) >= Abs(b) THEN Abs(a) ELSE Abs(b)
    IN  CHOOSE r \in lo..(Abs(a) + Abs(b)) :
            /\ r * r <= a * a + b * b
            /\ (r + 1) * (r + 1) > a * a + b * b

\* 2 R asin(sqrt(sin^2(dphi/2) + cos(phi1) cos(phi2) sin^2(dlambda/2))) for
\* the small separations of the model, where sin x = asin x = x and
\* cos(phi2) = cos(phi1): R sqrt(dphi^2 + (cos(phi1) dlambda)^2)
haversine_m(lat1, lon1, lat2, lon2) ==
    hypot(MulDiv(lat2 - lat1, 111195, 10000),
          MulDiv(MulDiv(lon2 - lon1, cos_milli(lat1), 1000), 111195, 10000))

(***************************************************************************)
(* The upstream service: what one request may be answered with.            *)
(* A result entry is a dict; an absent key is the empty sequence and a     *)
(* present one a sequence of one value (geometry.location.lat / .lng).     *)
(***************************************************************************)
MaxResults == 2
MaxPages == 2

PlaceIds == {"A", "B"}

P0 == <<0, 0>>
P1 == <<0, 45>>

RawResults ==
    { e \in [place_id : PlaceIds \cup {NoneV},
             lat : {<< >>, <<P0[1]>>},
             lng : {<< >>, <<P0[2]>>, <<P1[2]>>}] :
        \* a location holds both coordinates, the latitude alone, or nothing;
        \* an entry without identity key has no location or the location P0
        /\ (e.lat = << >> => e.lng = << >>)
        /\ (e.place_id = NoneV =>
               /\ e.lng # <<P1[2]>>
               /\ (e.lng = << >> => e.lat = << >>)) }

ResultLists(n) == UNION { [1..k -> RawResults] : k \in 0..n }

\* the token the upstream hands out with its k-th response
TokenOf(k) == "t" \o ToString(k)

\* room: how many more results the model lets the upstream return
Responses(k, room) ==
    [status : {"OK"}, results : ResultLists(room),
     next_page_token : {NoneV, TokenOf(k)}, error_message : {NoneV}]
    \cup
    [status : {"ZERO_RESULTS"}, results : {<< >>},
     next_page_token : {NoneV}, error_message : {NoneV}]
    \cup
    { [status |-> "OVER_QUERY_LIMIT", results |-> << >>,
       next_page_token |-> NoneV, error_message |-> NoneV],
      [status |-> "REQUEST_DENIED", results |-> << >>,
       next_page_token |-> NoneV, error_message |-> "denied"] }

(***************************************************************************)
(* State                                                                   *)
(***************************************************************************)
VARIABLES
    pc,              \* where the program is
    mode,            \* the entry point that runs
    settings,        \* the Settings object
    center,          \* (lat, lon) of the resolved address
    user_radius_m,   \* miles_to_meters(radius_miles)
    tile_centers,    \* collect_places: its tile_centers argument
    search_radius_m, \* collect_places: its tile_radius_m argument
    ti,              \* collect_places: index of the tile being queried
    pagetoken,       \* params["pagetoken"], NoneV while the key is absent
    page,            \* the page counter of the running search
    all_results,     \* the all_results list of the running search
    seen,            \* the seen set
    places,          \* the places list
    filter_radius_m, \* collect_places_textsearch: its filter_radius_m
    requests,        \* every search request issued, in order
    responses,       \* status, token and message of every response, in order
    raw_log,         \* every raw result received, in the order received
    client,          \* the HttpClient object
    now,             \* the time slept so far, in hundredths of a second
    ret,             \* the list returned to the caller (when pc = "done")
    err,             \* the exception raised (when pc = "error")
    g_args,          \* the arguments of a generate_tile_centers call
    g_ret,           \* its return value (when pc = "geo_done")
    cur_lat,         \* generate_tile_centers: the row of the grid
    cur_lon,         \* generate_tile_centers: the column of the grid
    centers,         \* generate_tile_centers: the centers list
    uniq,            \* generate_tile_centers: the uniq dict, as the sequence
                     \* of its items in insertion order
    ci,              \* the position in centers of "for a, b in centers"
    pi,              \* collect_reviews: the position in places of "for p"
    places_enriched, \* collect_reviews: the places_enriched list
    reviews_rows     \* collect_reviews: the reviews_rows list

vars == <<pc, mode, settings, center, user_radius_m, tile_centers,
          search_radius_m, ti, pagetoken, page, all_results, seen, places,
          filter_radius_m, requests, responses, raw_log, client, now,
          ret, err, g_args, g_ret, cur_lat, cur_lon, centers, uniq, ci,
          pi, places_enriched, reviews_rows>>

review_vars == <<pi, places_enriched, reviews_rows>>

grid_vars == <<cur_lat, cur_lon, centers, uniq, ci>>

collect_vars == <<mode, settings, center, user_radius_m, tile_centers,
                  search_radius_m, ti, pagetoken, page, all_results, seen,
                  places, filter_radius_m, requests, responses, raw_log,
                  client, now, ret, err, pi, places_enriched, reviews_rows>>

\* src/config.py: the defaults of Settings
DefaultSettings ==
    [tile_radius_m |-> 4000000, max_nearby_radius_m |-> 5000000,
     max_pages_per_tile |-> 3, max_pages_textsearch |-> 3,
     next_page_token_wait_sec |-> 220, sleep_between_requests_sec |-> 15]

\* src/http_client.py: HttpClient(timeout_sec, sleep_sec = 0.0)
HttpClient(sleep_sec) == [sleep_sec |-> sleep_sec]

NoError == [type |-> NoneV, text |-> NoneV, status |-> NoneV, msg |-> NoneV]

InitCollect ==
    /\ mode = NoneV
    /\ settings = DefaultSettings
    /\ center = <<0, 0>>
    /\ user_radius_m = 0
    /\ tile_centers = << >>
    /\ search_radius_m = 0
    /\ ti = 0
    /\ pagetoken = NoneV
    /\ page = 0
    /\ all_results = << >>
    /\ seen = {}
    /\ places = << >>
    /\ filter_radius_m = 0
    /\ requests = << >>
    /\ responses = << >>
    /\ raw_log = << >>
    /\ client = HttpClient(0)
    /\ now = 0
    /\ ret = << >>
    /\ err = NoError
    /\ pi = 0
    /\ places_enriched = << >>
    /\ reviews_rows = << >>

(***************************************************************************)
(* The tile-center specification: generate_tile_centers on drawn inputs    *)
(***************************************************************************)
MaxRadiusSteps == 8

GeoLats == {0, 4, 60000000, 59999985, 90000000}
GeoLons == {0, -7, 15}
GeoTileRadii == {50, 100, 200}
GeoRadii == {50 * k : k \in 1..MaxRadiusSteps}

InitGrid ==
    /\ cur_lat = 0
    /\ cur_lon = 0
    /\ centers = << >>
    /\ uniq = << >>
    /\ ci = 0

InitGeo ==
    /\ pc = "geo"
    /\ g_args \in [lat : GeoLats, lon : GeoLons,
                   radius_m : GeoRadii, tile_radius_m : GeoTileRadii]
    /\ g_ret = << >>
    /\ InitGrid
    /\ InitCollect

CallGenerateTileCenters ==
    /\ pc = "geo"
    /\ pc' = "geo_done"
    /\ g_ret' = generate_tile_centers(g_args.lat, g_args.lon,
                                      g_args.radius_m, g_args.tile_radius_m)
    /\ UNCHANGED <<g_args, collect_vars, grid_vars>>

(***************************************************************************)
(* The grid specification: the loops of generate_tile_centers, one pass    *)
(* at a time, on drawn inputs that include a zero, a negative and a very   *)
(* small tile radius.                                                      *)
(*                                                                         *)
(* A float that a step is added to stops changing where the step is below  *)
(* its precision.  Here the conversion to degrees loses a step below 12    *)
(* hundredths of a metre (dlat = 0), and a loop variable that runs away    *)
(* from the center stays where it is once it is MaxDrift units from it.    *)
(* A centers list longer than MaxCenters is the MemoryError of a list that *)
(* grows without end.                                                      *)
(***************************************************************************)
MaxCenters == 200
MaxDrift == 1000

GridLats == {0, 60000000}
GridLons == {0, -7}
GridTileRadii == {-50, 0, 5, 50, 100}

grid_dlat(a) == meters_to_lat_deg(step_m(a.tile_radius_m))
grid_dlon(a) == meters_to_lon_deg(step_m(a.tile_radius_m), a.lat)

lat_min(a) == a.lat - meters_to_lat_deg(a.radius_m)
lat_max(a) == a.lat + meters_to_lat_deg(a.radius_m)
lon_min(a) == a.lon - meters_to_lon_deg(a.radius_m, a.lat)
lon_max(a) == a.lon + meters_to_lon_deg(a.radius_m, a.lat)

\* advance leaving the loop variable as it is
advance_stuck(cur, d, origin) == cur

\* "cur_lon += dlon", "cur_lat += dlat"
advance(cur, d, origin) ==
    IF Abs(cur + d - origin) > MaxDrift THEN cur ELSE cur + d

InitGridRun ==
    /\ pc = "grid"
    /\ g_args \in [lat : GridLats, lon : GridLons,
                   radius_m : GeoRadii, tile_radius_m : GridTileRadii]
    /\ g_ret = << >>
    /\ InitGrid
    /\ InitCollect

\* the early return, or the statements up to the outer while
GridEnter ==
    /\ pc = "grid"
    /\ IF g_args.radius_m <= g_args.tile_radius_m
       THEN /\ pc' = "grid_done"
            /\ g_ret' = << <<g_args.lat, g_args.lon>> >>
            /\ UNCHANGED grid_vars
       ELSE /\ pc' = "lat_loop"
            /\ cur_lat' = lat_min(g_args)
            /\ centers' = << >>
            /\ UNCHANGED <<cur_lon, uniq, ci, g_ret>>
    /\ UNCHANGED <<g_args, collect_vars>>

\* the test of the outer while: a row is opened, or the loops are over, the
\* center is appended and the uniq dict is created
LatLoopTest ==
    /\ pc = "lat_loop"
    /\ IF cur_lat <= lat_max(g_args)
       THEN /\ pc' = "lon_loop"
            /\ cur_lon' = lon_min(g_args)
            /\ UNCHANGED <<cur_lat, centers, uniq, ci>>
       ELSE /\ pc' = "uniq_loop"
            /\ centers' = Append(centers, <<g_args.lat, g_args.lon>>)
            /\ uniq' = << >>
            /\ ci' = 1
            /\ UNCHANGED <<cur_lat, cur_lon>>
    /\ UNCHANGED <<g_args, g_ret, collect_vars>>

\* the test of the inner while and one pass of its body, or the end of the
\* row and "cur_lat += dlat"
LonLoopPass ==
    /\ pc = "lon_loop"
    /\ IF cur_lon <= lon_max(g_args)
       THEN LET inside == in_circle(cur_lat, cur_lon, g_args.lat,
                                    g_args.lon, g_args.radius_m)
            IN  IF inside /\ Len(centers) >= MaxCenters
                THEN /\ pc' = "grid_error"
                     /\ UNCHANGED <<cur_lat, cur_lon, centers>>
                ELSE /\ pc' = "lon_loop"
                     /\ centers' = IF inside
                                   THEN Append(centers, <<cur_lat, cur_lon>>)
                                   ELSE centers
                     /\ cur_lon' = advance(cur_lon, grid_dlon(g_args),
                                           g_args.lon)
                     /\ UNCHANGED cur_lat
       ELSE /\ pc' = "lat_loop"
            /\ cur_lat' = advance(cur_lat, grid_dlat(g_args), g_args.lat)
            /\ UNCHANGED <<cur_lon, centers>>
    /\ UNCHANGED <<uniq, ci, g_args, g_ret, collect_vars>>

\* "uniq[(round(a, 5), round(b, 5))] = (a, b)": a key that is there keeps
\* its place and takes the new value, a new key goes to the end
uniq_put(u, c) ==
    IF \E i \in 1..Len(u) : u[i].key = round_key(c)
    THEN [i \in 1..Len(u) |->
             IF u[i].key = round_key(c)
             THEN [key |-> u[i].key, value |-> c]
             ELSE u[i]]
    ELSE Append(u, [key |-> round_key(c), value |-> c])

\* one pass of "for a, b in centers", or the return of list(uniq.values())
UniqLoopPass ==
    /\ pc = "uniq_loop"
    /\ IF ci <= Len(centers)
       THEN /\ pc' = "uniq_loop"
            /\ uniq' = uniq_put(uniq, centers[ci])
            /\ ci' = ci + 1
            /\ g_ret' = g_ret
       ELSE /\ pc' = "grid_done"
            /\ g_ret' = [n \in 1..Len(uniq) |-> uniq[n].value]
            /\ UNCHANGED <<uniq, ci>>
    /\ UNCHANGED <<cur_lat, cur_lon, centers, g_args, collect_vars>>

NextGrid ==
    \/ GridEnter
    \/ LatLoopTest
    \/ LonLoopPass
    \/ UniqLoopPass

\* the function runs on: a pass that is enabled is taken
SpecGrid == InitGridRun /\ [][NextGrid]_vars /\ WF_vars(NextGrid)

(***************************************************************************)
(* src/places_collector.py: collect_places                                 *)
(***************************************************************************)

\* the row appended for a raw result p; name, vicinity and types are copied
\* from p the way lat and lon are, and the model carries these two
nearby_row(p) ==
    [place_id |-> p.place_id, lat |-> p.lat, lon |-> p.lng]

\* skip_nearby without the seen test
skip_nearby_unseen(p, sn) == p.place_id = NoneV

\* "if not pid or pid in seen: continue"
skip_nearby(p, sn) == p.place_id = NoneV \/ p.place_id \in sn

\* the loop "for p in results" of one tile, from the seen set sn and the
\* places list pl
RECURSIVE merge_results(_, _, _)
merge_results(sn, pl, results) ==
    IF results = << >>
    THEN [seen |-> sn, places |-> pl]
    ELSE LET p == Head(results)
         IN  IF skip_nearby(p, sn)
             THEN merge_results(sn, pl, Tail(results))
             ELSE merge_results(sn \cup {p.place_id},
                                Append(pl, nearby_row(p)), Tail(results))

\* status_ok letting every status pass
status_ok_any(status) == TRUE

\* status_ok letting only OK pass
status_ok_only_ok(status) == status = "OK"

\* "if status not in ("OK", "ZERO_RESULTS"): raise": the statuses that pass
status_ok(status) == status \in {"OK", "ZERO_RESULTS"}

\* search_stops comparing with > in place of >=
search_stops_late(token, pg, max_pages) == token = NoneV \/ pg > max_pages

\* "if not token or page >= max_pages: break"
search_stops(token, pg, max_pages) == token = NoneV \/ pg >= max_pages

\* tile_params keeping the pagetoken of the search before
tile_params_kept(prev_pagetoken) == prev_pagetoken

\* nearby_search_tile builds its params anew, with location, radius, keyword
\* and key: the pagetoken key is absent whatever the search before left
tile_params(prev_pagetoken) == NoneV

\* collect_places is entered: seen and places are empty and the first tile,
\* if there is one, is about to be searched
EnterCollectPlaces(tcs, radius_m) ==
    /\ tile_centers' = tcs
    /\ search_radius_m' = radius_m
    /\ seen' = {}
    /\ places' = << >>
    /\ page' = 0
    /\ all_results' = << >>
    /\ pagetoken' = tile_params(pagetoken)
    /\ err' = NoError
    /\ IF tcs = << >>
       THEN pc' = "done" /\ ti' = 0 /\ ret' = << >>
       ELSE pc' = "nearby" /\ ti' = 1 /\ ret' = << >>

RuntimeError(text, data) ==
    [type |-> "RuntimeError", text |-> text,
     status |-> data.status, msg |-> data.error_message]

\* token_wait without the sleep
token_wait_skipped(s) == 0

\* time.sleep(settings.next_page_token_wait_sec)
token_wait(s) == s.next_page_token_wait_sec

\* tile_pause without the sleep
tile_pause_skipped(s) == 0

\* time.sleep(settings.sleep_between_requests_sec), after the results of a
\* tile are merged
tile_pause(s) == s.sleep_between_requests_sec

\* get_json: "if self.sleep_sec: time.sleep(self.sleep_sec)"
get_json_sleep(cl) == cl.sleep_sec

\* the while loop of nearby_search_tile reaches client.get_json: requests.get
\* sends the request and blocks until the response is there
NearbySearchRequest ==
    /\ pc = "nearby"
    /\ pc' = "nearby_wait"
    /\ requests' = Append(requests,
           [url |-> "nearby", tile |-> ti,
            location |-> tile_centers[ti], radius |-> search_radius_m,
            pagetoken |-> pagetoken, at |-> now])
    /\ UNCHANGED <<mode, settings, center, user_radius_m, tile_centers,
                   search_radius_m, ti, pagetoken, page, all_results, seen,
                   places, filter_radius_m, responses, raw_log, client, now,
                   ret, err, g_args, g_ret, grid_vars,
                   review_vars>>

\* the response arrives and the pass of the while loop goes on: the sleep of
\* get_json, the status check, the results, the token and the wait for it
NearbySearchPage ==
    /\ pc = "nearby_wait"
    /\ \E data \in Responses(Len(requests), MaxResults - Len(raw_log)) :
         /\ responses' = Append(responses,
                [status |-> data.status, token |-> data.next_page_token,
                 msg |-> data.error_message, at |-> now])
         /\ raw_log' = raw_log \o data.results
         /\ IF ~status_ok(data.status)
            THEN /\ pc' = "error"
                 /\ err' = RuntimeError("Nearby Search error", data)
                 /\ now' = now + get_json_sleep(client)
                 /\ UNCHANGED <<all_results, page, pagetoken>>
            ELSE /\ all_results' = all_results \o data.results
                 /\ page' = page + 1
                 /\ err' = err
                 /\ IF search_stops(data.next_page_token, page + 1,
                                    settings.max_pages_per_tile)
                    THEN /\ pc' = "merge"
                         /\ pagetoken' = pagetoken
                         /\ now' = now + get_json_sleep(client)
                    ELSE /\ pc' = "nearby"
                         /\ pagetoken' = data.next_page_token
                         /\ now' = now + get_json_sleep(client)
                                       + token_wait(settings)
    /\ UNCHANGED <<mode, settings, center, user_radius_m, tile_centers,
                   search_radius_m, ti, seen, places, filter_radius_m,
                   requests, client, ret, g_args, g_ret, grid_vars,
                   review_vars>>

\* nearby_search_tile returned: the results of the tile are merged, the
\* pacing sleep follows, and the next tile starts or the places are returned
MergeTile ==
    /\ pc = "merge"
    /\ now' = now + tile_pause(settings)
    /\ LET m == merge_results(seen, places, all_results)
       IN  /\ seen' = m.seen
           /\ places' = m.places
           /\ IF ti = Len(tile_centers)
              THEN /\ pc' = "done"
                   /\ ret' = m.places
                   /\ UNCHANGED <<ti, page, all_results, pagetoken>>
              ELSE /\ pc' = "nearby"
                   /\ ti' = ti + 1
                   /\ page' = 0
                   /\ all_results' = << >>
                   /\ pagetoken' = tile_params(pagetoken)
                   /\ ret' = ret
    /\ UNCHANGED <<mode, settings, center, user_radius_m, tile_centers,
                   search_radius_m, filter_radius_m, requests, responses,
                   raw_log, client, err, g_args, g_ret, grid_vars,
                   review_vars>>

(***************************************************************************)
(* src/text_search_collector.py: collect_places_textsearch                 *)
(***************************************************************************)

text_row(p, dist_m) ==
    [place_id |-> p.place_id, lat |-> p.lat, lon |-> p.lng,
     distance_m |-> dist_m]

\* skip_text without the seen test
skip_text_unseen(p, sn, c, radius_m) ==
    \/ p.place_id = NoneV
    \/ p.lat = << >> \/ p.lng = << >>
    \/ haversine_m(c[1], c[2], p.lat[1], p.lng[1]) > radius_m

\* the three "continue" tests of the loop, in the order of the code
skip_text(p, sn, c, radius_m) ==
    \/ p.place_id = NoneV \/ p.place_id \in sn
    \/ p.lat = << >> \/ p.lng = << >>
    \/ haversine_m(c[1], c[2], p.lat[1], p.lng[1]) > radius_m

\* the loop "for p in raw"; seen.add(pid) comes after the three tests
RECURSIVE filter_results(_, _, _, _, _)
filter_results(sn, pl, raw, c, radius_m) ==
    IF raw = << >>
    THEN pl
    ELSE LET p == Head(raw)
         IN  IF skip_text(p, sn, c, radius_m)
             THEN filter_results(sn, pl, Tail(raw), c, radius_m)
             ELSE filter_results(
                      sn \cup {p.place_id},
                      Append(pl, text_row(p, haversine_m(c[1], c[2],
                                                         p.lat[1], p.lng[1]))),
                      Tail(raw), c, radius_m)

\* x goes behind every row that does not sort after it (the sort is stable)
sort_insert(sorted, x) ==
    LET n == Cardinality({i \in 1..Len(sorted) :
                             sorted[i].distance_m <= x.distance_m})
    IN  SubSeq(sorted, 1, n) \o <<x>> \o SubSeq(sorted, n + 1, Len(sorted))

\* sort_by_distance leaving the rows in the order found
sort_by_distance_unsorted(rows) == rows

\* places.sort(key=lambda x: x["distance_m"])
RECURSIVE sort_by_distance(_)
sort_by_distance(rows) ==
    IF rows = << >> THEN << >>
    ELSE sort_insert(sort_by_distance(SubSeq(rows, 1, Len(rows) - 1)),
                     rows[Len(rows)])

\* the while loop of text_search_pages reaches client.get_json (the text
\* query carries neither location nor radius)
TextSearchRequest ==
    /\ pc = "text"
    /\ pc' = "text_wait"
    /\ requests' = Append(requests,
           [url |-> "textsearch", tile |-> 0,
            location |-> center, radius |-> 0,
            pagetoken |-> pagetoken, at |-> now])
    /\ UNCHANGED <<mode, settings, center, user_radius_m, tile_centers,
                   search_radius_m, ti, pagetoken, page, all_results, seen,
                   places, filter_radius_m, responses, raw_log, client, now,
                   ret, err, g_args, g_ret, grid_vars,
                   review_vars>>

\* the response arrives and the pass of the while loop of text_search_pages
\* goes on
TextSearchPage ==
    /\ pc = "text_wait"
    /\ \E data \in Responses(Len(requests), MaxResults - Len(raw_log)) :
         /\ responses' = Append(responses,
                [status |-> data.status, token |-> data.next_page_token,
                 msg |-> data.error_message, at |-> now])
         /\ raw_log' = raw_log \o data.results
         /\ IF ~status_ok(data.status)
            THEN /\ pc' = "error"
                 /\ err' = RuntimeError("Text Search error", data)
                 /\ now' = now + get_json_sleep(client)
                 /\ UNCHANGED <<all_results, page, pagetoken>>
            ELSE /\ all_results' = all_results \o data.results
                 /\ page' = page + 1
                 /\ err' = err
                 /\ IF search_stops(data.next_page_token, page + 1,
                                    settings.max_pages_textsearch)
                    THEN /\ pc' = "filter"
                         /\ pagetoken' = pagetoken
                         /\ now' = now + get_json_sleep(client)
                    ELSE /\ pc' = "text"
                         /\ pagetoken' = data.next_page_token
                         /\ now' = now + get_json_sleep(client)
                                       + token_wait(settings)
    /\ UNCHANGED <<mode, settings, center, user_radius_m, tile_centers,
                   search_radius_m, ti, seen, places, filter_radius_m,
                   requests, client, ret, g_args, g_ret, grid_vars,
                   review_vars>>

\* text_search_pages returned: the raw results are filtered and sorted, and
\* the places are returned
FilterTextResults ==
    /\ pc = "filter"
    /\ LET kept == filter_results({}, << >>, all_results, center,
                                  filter_radius_m)
       IN  /\ places' = sort_by_distance(kept)
           /\ seen' = {kept[i].place_id : i \in 1..Len(kept)}
           /\ ret' = sort_by_distance(kept)
    /\ pc' = "done"
    /\ UNCHANGED <<mode, settings, center, user_radius_m, tile_centers,
                   search_radius_m, ti, pagetoken, page, all_results,
                   filter_radius_m, requests, responses, raw_log, client,
                   now, err, g_args, g_ret, grid_vars,
                   review_vars>>

(***************************************************************************)
(* The entry points                                                        *)
(***************************************************************************)
Centers == {<<0, 0>>}

TiledSettings ==
    [tile_radius_m : {1000, 2000}, max_nearby_radius_m : {1500},
     max_pages_per_tile : 1..MaxPages,
     max_pages_textsearch : {DefaultSettings.max_pages_textsearch},
     next_page_token_wait_sec : {DefaultSettings.next_page_token_wait_sec},
     sleep_between_requests_sec :
         {DefaultSettings.sleep_between_requests_sec}]

TextSettings ==
    [tile_radius_m : {DefaultSettings.tile_radius_m},
     max_nearby_radius_m : {DefaultSettings.max_nearby_radius_m},
     max_pages_per_tile : {DefaultSettings.max_pages_per_tile},
     max_pages_textsearch : 1..MaxPages,
     next_page_token_wait_sec : {DefaultSettings.next_page_token_wait_sec},
     sleep_between_requests_sec :
         {DefaultSettings.sleep_between_requests_sec}]

\* radius_miles as typed in
TiledMiles == {310, 683}
TextMiles == {310, 311}

\* geocode_address failed: "Geocode error"
GeocodeFails ==
    /\ pc' = "error"
    /\ err' = [type |-> "RuntimeError", text |-> "Geocode error",
               status |-> "ZERO_RESULTS", msg |-> NoneV]
    /\ UNCHANGED <<center, user_radius_m, tile_centers, search_radius_m, ti,
                   pagetoken, page, all_results, seen, places,
                   filter_radius_m, ret>>

\* src/pipeline.py: run(), up to the first request of collect_places
RunPipeline ==
    /\ pc = "idle"
    /\ \E s \in TiledSettings, mi \in TiledMiles, c \in Centers,
          geocoded \in BOOLEAN :
         /\ mode' = "pipeline"
         /\ settings' = s
         /\ client' = HttpClient(s.sleep_between_requests_sec)
         /\ IF ~geocoded
            THEN GeocodeFails
            ELSE LET radius_m == miles_to_meters(mi)
                     tile_radius_m == Min2(s.tile_radius_m,
                                           s.max_nearby_radius_m)
                 IN  /\ center' = c
                     /\ user_radius_m' = radius_m
                     /\ filter_radius_m' = filter_radius_m
                     /\ EnterCollectPlaces(
                            generate_tile_centers(c[1], c[2], radius_m,
                                                  tile_radius_m),
                            tile_radius_m)
    /\ UNCHANGED <<requests, responses, raw_log, now, g_args, g_ret, grid_vars,
                   review_vars>>

\* app.py, Geo Coverage mode: collect_places is called with the keyword
\* arguments filter_center and filter_radius_m, which it does not take
RunDashboardGeo ==
    /\ pc = "idle"
    /\ \E s \in TiledSettings, mi \in TiledMiles, c \in Centers,
          geocoded \in BOOLEAN :
         /\ mode' = "dashboard_geo"
         /\ settings' = s
         /\ client' = HttpClient(s.sleep_between_requests_sec)
         /\ IF ~geocoded
            THEN GeocodeFails
            ELSE LET radius_m == miles_to_meters(mi)
                     tile_radius_m == Min2(s.tile_radius_m,
                                           s.max_nearby_radius_m)
                 IN  /\ center' = c
                     /\ user_radius_m' = radius_m
                     /\ tile_centers' =
                            IF radius_m <= tile_radius_m
                            THEN << c >>
                            ELSE generate_tile_centers(c[1], c[2], radius_m,
                                                       tile_radius_m)
                     /\ search_radius_m' = int_m(Min2(radius_m, tile_radius_m))
                     /\ filter_radius_m' = radius_m
                     /\ pc' = "error"
                     /\ err' = [type |-> "TypeError",
                                text |-> "unexpected keyword argument",
                                status |-> NoneV, msg |-> NoneV]
                     /\ UNCHANGED <<ti, pagetoken, page, all_results, seen,
                                    places, ret>>
    /\ UNCHANGED <<requests, responses, raw_log, now, g_args, g_ret, grid_vars,
                   review_vars>>

\* app.py, Brand Search mode, up to the first request of text_search_pages
RunDashboardText ==
    /\ pc = "idle"
    /\ \E s \in TextSettings, mi \in TextMiles, c \in Centers,
          geocoded \in BOOLEAN :
         /\ mode' = "dashboard_text"
         /\ settings' = s
         /\ client' = HttpClient(s.sleep_between_requests_sec)
         /\ IF ~geocoded
            THEN GeocodeFails
            ELSE /\ center' = c
                 /\ user_radius_m' = miles_to_meters(mi)
                 /\ filter_radius_m' = miles_to_meters(mi)
                 /\ pc' = "text"
                 /\ page' = 0
                 /\ all_results' = << >>
                 /\ pagetoken' = NoneV
                 /\ UNCHANGED <<tile_centers, search_radius_m, ti, seen,
                                places, ret, err>>
    /\ UNCHANGED <<requests, responses, raw_log, now, g_args, g_ret, grid_vars,
                   review_vars>>

\* collect_places called on a tile list no grid produces: an empty one, and
\* one that names a center twice
OtherTileLists == { << >>, << <<0, 0>>, <<0, 0>> >> }

CallCollectPlaces ==
    /\ pc = "idle"
    /\ \E s \in TiledSettings, tcs \in OtherTileLists :
         /\ s.tile_radius_m = 1000
         /\ mode' = "collect_places"
         /\ settings' = s
         /\ client' = HttpClient(0)
         /\ EnterCollectPlaces(tcs, s.tile_radius_m)
    /\ UNCHANGED <<center, user_radius_m, filter_radius_m, requests,
                   responses, raw_log, now, g_args, g_ret, grid_vars,
                   review_vars>>

Init ==
    /\ pc = "idle"
    /\ g_args = [lat |-> 0, lon |-> 0, radius_m |-> 0, tile_radius_m |-> 0]
    /\ g_ret = << >>
    /\ InitGrid
    /\ InitCollect

Next ==
    \/ RunPipeline
    \/ RunDashboardGeo
    \/ RunDashboardText
    \/ CallCollectPlaces
    \/ NearbySearchRequest
    \/ NearbySearchPage
    \/ MergeTile
    \/ TextSearchRequest
    \/ TextSearchPage
    \/ FilterTextResults

Spec == Init /\ [][Next]_vars

NextGeo == CallGenerateTileCenters

SpecGeo == InitGeo /\ [][NextGeo]_vars

(***************************************************************************)
(* src/reviews_collector.py: collect_reviews on drawn place lists          *)
(***************************************************************************)
MaxPlaces == 3

\* the rows handed in: place rows as collect_places returns them, and lists
\* that name a place twice
PlaceRows ==
    { [place_id |-> "A", name |-> "a", lat |-> << >>, lon |-> << >>],
      [place_id |-> "B", name |-> "b", lat |-> <<P0[1]>>, lon |-> <<P0[2]>>] }

PlaceLists == UNION { [1..k -> PlaceRows] : k \in 0..MaxPlaces }

\* the "result" of a details response: name, geometry.location and the
\* "time" of each review (absent: the empty sequence)
DetailResults ==
    [name : {NoneV, "N"},
     loc : { [lat |-> << >>, lng |-> << >>],
             [lat |-> <<1>>, lng |-> << >>],
             [lat |-> <<1>>, lng |-> <<P1[2]>>] },
     review_times : { << >>, << <<0>>, <<86401>> >> }]

NoResult ==
    [name |-> NoneV, loc |-> [lat |-> << >>, lng |-> << >>],
     review_times |-> << >>]

DetailResponses ==
    [status : {"OK"}, result : DetailResults, error_message : {NoneV}]
    \cup
    { [status |-> "ZERO_RESULTS", result |-> NoResult,
       error_message |-> NoneV],
      [status |-> "NOT_FOUND", result |-> NoResult,
       error_message |-> "gone"] }

\* details_ok passing what the search loops pass
details_ok_as_search(status) == status \in {"OK", "ZERO_RESULTS"}

\* fetch_place_details: "if status != "OK": raise"
details_ok(status) == status = "OK"

\* datetime.utcfromtimestamp(ts).strftime("%Y-%m-%d %H:%M:%S"), as the day
\* since 1970-01-01 and the second of that day
utc_date(ts) == [day |-> ts \div 86400, second |-> ts % 86400]

\* the row appended to places_enriched: {**p, "name": ..., "lat": ..., ...};
\* the rating and address fields are copied from details the way name is
enriched_row(p, details) ==
    [place_id |-> p.place_id,
     name |-> IF details.name # NoneV THEN details.name ELSE p.name,
     lat |-> IF details.loc.lat # << >> THEN details.loc.lat ELSE p.lat,
     lon |-> IF details.loc.lng # << >> THEN details.loc.lng ELSE p.lon]

\* the row appended to reviews_rows for a review with "time" t:
\* "date_utc": ... if ts else None
review_row(p, details, t) ==
    [place_id |-> p.place_id,
     restaurant_name |-> IF details.name # NoneV THEN details.name
                         ELSE p.name,
     review_time_unix |-> t,
     date_utc |-> IF t = << >> \/ t = <<0>>
                  THEN << >>
                  ELSE <<utc_date(t[1])>>]

\* collect_reviews is called (as run() and the dashboard call it, with the
\* client they built)
CallCollectReviews ==
    /\ pc = "idle"
    /\ \E pl \in PlaceLists :
         /\ places' = pl
         /\ pc' = IF pl = << >> THEN "reviews_done" ELSE "reviews"
    /\ mode' = "reviews"
    /\ client' = HttpClient(settings.sleep_between_requests_sec)
    /\ pi' = 1
    /\ places_enriched' = << >>
    /\ reviews_rows' = << >>
    /\ UNCHANGED <<settings, center, user_radius_m, tile_centers,
                   search_radius_m, ti, pagetoken, page, all_results, seen,
                   filter_radius_m, requests, responses, raw_log, now, ret,
                   err, g_args, g_ret, grid_vars>>

\* fetch_place_details reaches client.get_json for places[pi]
FetchPlaceDetailsRequest ==
    /\ pc = "reviews"
    /\ pc' = "details_wait"
    /\ requests' = Append(requests,
           [url |-> "details", place_id |-> places[pi].place_id,
            at |-> now])
    /\ UNCHANGED <<mode, settings, center, user_radius_m, tile_centers,
                   search_radius_m, ti, pagetoken, page, all_results, seen,
                   places, filter_radius_m, responses, raw_log, client, now,
                   ret, err, g_args, g_ret, grid_vars, review_vars>>

\* the response arrives: the status check of fetch_place_details, then the
\* rest of the pass of "for p in places", and the return after the last
FetchPlaceDetails ==
    /\ pc = "details_wait"
    /\ \E data \in DetailResponses :
         /\ responses' = Append(responses,
                [status |-> data.status, msg |-> data.error_message,
                 at |-> now])
         /\ now' = now + get_json_sleep(client)
         /\ IF ~details_ok(data.status)
            THEN /\ pc' = "reviews_error"
                 /\ err' = RuntimeError("Place Details error", data)
                 /\ UNCHANGED review_vars
            ELSE /\ places_enriched' =
                        Append(places_enriched,
                               enriched_row(places[pi], data.result))
                 /\ reviews_rows' =
                        reviews_rows \o
                        [n \in 1..Len(data.result.review_times) |->
                            review_row(places[pi], data.result,
                                       data.result.review_times[n])]
                 /\ pi' = pi + 1
                 /\ pc' = IF pi = Len(places) THEN "reviews_done"
                          ELSE "reviews"
                 /\ err' = err
    /\ UNCHANGED <<mode, settings, center, user_radius_m, tile_centers,
                   search_radius_m, ti, pagetoken, page, all_results, seen,
                   places, filter_radius_m, requests, raw_log, client, ret,
                   g_args, g_ret, grid_vars>>

NextReviews ==
    \/ CallCollectReviews
    \/ FetchPlaceDetailsRequest
    \/ FetchPlaceDetails

SpecReviews == Init /\ [][NextReviews]_vars

(***************************************************************************)
(* Vocabulary of the properties                                            *)
(***************************************************************************)
MinOf(S) == CHOOSE x \in S : \A y \in S : x <= y

TiledModes == {"pipeline", "collect_places"}

NoTwoShareId(rows) ==
    \A i, j \in 1..Len(rows) : i # j => rows[i].place_id # rows[j].place_id

HasCoordinates(p) == p.lat # << >> /\ p.lng # << >>

DistanceOf(p) == haversine_m(center[1], center[2], p.lat[1], p.lng[1])

\* the positions in requests of the search of tile t (0: the text search)
SearchOf(t) == {k \in 1..Len(requests) : requests[k].tile = t}

\* the searches that returned their results
ReturnedSearches ==
    {t \in 0..Len(tile_centers) :
        /\ SearchOf(t) # {}
        /\ \/ t > 0 /\ (t < ti \/ pc \in {"merge", "done"})
           \/ t = 0 /\ pc \in {"filter", "done"}}

MaxPagesOf(t) ==
    IF t = 0 THEN settings.max_pages_textsearch
    ELSE settings.max_pages_per_tile

\* within the search of tile t, the ranks of the responses without a token
TokenlessRanks(t) ==
    {k - MinOf(SearchOf(t)) + 1 : k \in {j \in SearchOf(t) :
                                            responses[j].token = NoneV}}

\* the responses that carry an error status
FailedResponses ==
    {k \in 1..Len(responses) : responses[k].status \notin {"OK", "ZERO_RESULTS"}}

(***************************************************************************)
(* C1. The list collect_places returns holds no place_id twice, and the    *)
(* row kept for a place_id carries the fields of the first raw result with *)
(* that place_id, in the order tiles, pages and results were processed.    *)
(***************************************************************************)
C1_TiledFirstOccurrenceWins ==
    (pc = "done" /\ mode \in TiledModes) =>
        /\ NoTwoShareId(ret)
        /\ \A i \in 1..Len(ret) :
             LET with_id == {k \in 1..Len(raw_log) :
                                raw_log[k].place_id = ret[i].place_id}
             IN  /\ with_id # {}
                 /\ ret[i].lat = raw_log[MinOf(with_id)].lat
                 /\ ret[i].lon = raw_log[MinOf(with_id)].lng

\* two tiles returned the same place_id with different fields, the first
\* tile first
C1_Witness ==
    /\ pc = "done" /\ mode \in TiledModes
    /\ Len(tile_centers) = 2
    /\ Len(raw_log) = 2 /\ Len(all_results) = 1
    /\ raw_log[1].place_id = raw_log[2].place_id
    /\ raw_log[1].place_id # NoneV
    /\ raw_log[1] # raw_log[2]
    /\ Len(ret) = 1

(***************************************************************************)
(* C2. Every row collect_places_textsearch returns lies within the filter  *)
(* radius of the filter center (a result exactly at the radius is kept),   *)
(* and the rows are sorted ascending by distance_m.                        *)
(***************************************************************************)
C2_TextWithinRadiusSorted ==
    (pc = "done" /\ mode = "dashboard_text") =>
        /\ \A i \in 1..Len(ret) :
             /\ ret[i].distance_m =
                    haversine_m(center[1], center[2], ret[i].lat[1],
                                ret[i].lon[1])
             /\ ret[i].distance_m <= filter_radius_m
        /\ \A i, j \in 1..Len(ret) :
             i < j => ret[i].distance_m <= ret[j].distance_m
        /\ \A k \in 1..Len(raw_log) :
             (/\ raw_log[k].place_id # NoneV
              /\ HasCoordinates(raw_log[k])
              /\ DistanceOf(raw_log[k]) <= filter_radius_m)
             => \E i \in 1..Len(ret) : ret[i].place_id = raw_log[k].place_id

\* the farther result came first and lies exactly at the radius: it is kept
\* and sorted behind the nearer one
C2_Witness ==
    /\ pc = "done" /\ mode = "dashboard_text"
    /\ Len(raw_log) = 2 /\ Len(ret) = 2
    /\ HasCoordinates(raw_log[1])
    /\ DistanceOf(raw_log[1]) = filter_radius_m
    /\ ret[1].distance_m < ret[2].distance_m
    /\ ret[2].place_id = raw_log[1].place_id

(***************************************************************************)
(* C3. With a page limit N >= 1 and no error status, a paginated search    *)
(* issues min(N, k) requests, k being the rank of the first response       *)
(* without a continuation token: a token on the N-th page is ignored.      *)
(***************************************************************************)
C3_RequestsPerSearch ==
    \A t \in ReturnedSearches :
        Cardinality(SearchOf(t)) =
            IF TokenlessRanks(t) = {}
            THEN MaxPagesOf(t)
            ELSE Min2(MaxPagesOf(t), MinOf(TokenlessRanks(t)))

\* a search that stopped at the page limit although its last response
\* carried a token
C3_Witness ==
    \E t \in ReturnedSearches :
        /\ MaxPagesOf(t) >= 2
        /\ Cardinality(SearchOf(t)) = MaxPagesOf(t)
        /\ TokenlessRanks(t) = {}

(***************************************************************************)
(* C4. An upstream response with a status other than OK or ZERO_RESULTS    *)
(* ends the collection in an error that carries that status and message;   *)
(* no place list is returned and no request follows the failing one.       *)
(***************************************************************************)
C4_ErrorStatusAborts ==
    \A k \in FailedResponses :
        /\ pc = "error"
        /\ err.type = "RuntimeError"
        /\ err.status = responses[k].status
        /\ err.msg = responses[k].msg
        /\ ret = << >>
        /\ k = Len(requests)

\* the second tile failed after the first had contributed places
C4_Witness ==
    /\ FailedResponses # {}
    /\ pc = "error"
    /\ ti = 2
    /\ places # << >>
    /\ err.msg # NoneV

(***************************************************************************)
(* C5. In both discovery strategies a raw result without an identity key,  *)
(* without lat or without lng never appears in the returned list.          *)
(***************************************************************************)
C5_MalformedNeverReturned ==
    pc = "done" =>
        \A i \in 1..Len(ret) :
            /\ ret[i].place_id # NoneV
            /\ ret[i].lat # << >>
            /\ ret[i].lon # << >>

(***************************************************************************)
(* C6. Every nearby-search request of a tiled collection run by the        *)
(* pipeline or by the dashboard's Geo Coverage mode carries the radius     *)
(* min(userRadius, min(tile_radius_m, max_nearby_radius_m)).               *)
(***************************************************************************)
C6_RadiusIsMinOfUserAndCap ==
    mode \in {"pipeline", "dashboard_geo"} =>
        \A k \in 1..Len(requests) :
            requests[k].url = "nearby" =>
                requests[k].radius =
                    Min2(user_radius_m,
                         Min2(settings.tile_radius_m,
                              settings.max_nearby_radius_m))

(***************************************************************************)
(* C7. For radius_m <= tile_radius_m generate_tile_centers returns exactly *)
(* one center, the input center, unrounded.                                *)
(***************************************************************************)
C7_SingleCenterWithinTile ==
    (pc = "geo_done" /\ g_args.radius_m <= g_args.tile_radius_m) =>
        g_ret = << <<g_args.lat, g_args.lon>> >>

\* a center that rounding would change, and a radius equal to the tile radius
C7_Witness ==
    /\ pc = "geo_done"
    /\ g_args.radius_m = g_args.tile_radius_m
    /\ round5(g_args.lat) * 10 # g_args.lat
    /\ round5(g_args.lon) * 10 # g_args.lon

(***************************************************************************)
(* C8. For radius_m > tile_radius_m the centers returned contain the       *)
(* original center, also when a grid point shares its 5-decimal key, and   *)
(* every center returned has dx^2 + dy^2 <= radius_m^2.                    *)
(***************************************************************************)
C8_CenterKeptAllWithinRadius ==
    (pc = "geo_done" /\ g_args.radius_m > g_args.tile_radius_m) =>
        /\ \E i \in 1..Len(g_ret) : g_ret[i] = <<g_args.lat, g_args.lon>>
        /\ \A i \in 1..Len(g_ret) :
             planar_dx(g_ret[i][2], g_args.lon, g_args.lat)
                 * planar_dx(g_ret[i][2], g_args.lon, g_args.lat)
             + planar_dy(g_ret[i][1], g_args.lat)
                 * planar_dy(g_ret[i][1], g_args.lat)
             <= g_args.radius_m * g_args.radius_m

\* a grid point other than the center rounds to the key of the center
C8_Witness ==
    /\ pc = "geo_done"
    /\ g_args.radius_m > g_args.tile_radius_m
    /\ LET grid == grid_centers(g_args.lat, g_args.lon, g_args.radius_m,
                                g_args.tile_radius_m)
       IN  \E i \in 1..(Len(grid) - 1) :
              /\ grid[i] # <<g_args.lat, g_args.lon>>
              /\ round_key(grid[i]) = round_key(<<g_args.lat, g_args.lon>>)

(***************************************************************************)
(* C9. No two centers generate_tile_centers returns agree in both          *)
(* coordinates after rounding to 5 decimals.                               *)
(***************************************************************************)
C9_NoDuplicateRoundedCenters ==
    pc = "geo_done" =>
        \A i, j \in 1..Len(g_ret) :
            i # j => round_key(g_ret[i]) # round_key(g_ret[j])

\* grid points that round to one key were merged
C9_Witness ==
    /\ pc = "geo_done"
    /\ g_args.radius_m > g_args.tile_radius_m
    /\ Len(g_ret) + 2 <=
           Len(grid_centers(g_args.lat, g_args.lon, g_args.radius_m,
                            g_args.tile_radius_m))

(***************************************************************************)
(* C10, as claimed. In text-query discovery each identity key is decided   *)
(* by the first raw result that carries the key and has coordinates: the   *)
(* row returned for the key is built from that result.                     *)
(***************************************************************************)
C10_FirstWithCoordinatesDecides ==
    (pc = "done" /\ mode = "dashboard_text") =>
        \A i \in 1..Len(ret) :
            LET cand == {k \in 1..Len(raw_log) :
                            /\ raw_log[k].place_id = ret[i].place_id
                            /\ HasCoordinates(raw_log[k])}
            IN  /\ cand # {}
                /\ ret[i].lat = raw_log[MinOf(cand)].lat
                /\ ret[i].lon = raw_log[MinOf(cand)].lng

(***************************************************************************)
(* C10, amended. Each identity key is decided by the first raw result that *)
(* carries the key, has coordinates and lies within the filter radius: the *)
(* list holds at most one row per identity, built from that result, and a  *)
(* key with such a result always has its row.                              *)
(***************************************************************************)
C10_FirstWithinRadiusDecides ==
    (pc = "done" /\ mode = "dashboard_text") =>
        /\ NoTwoShareId(ret)
        /\ \A i \in 1..Len(ret) :
             LET cand == {k \in 1..Len(raw_log) :
                             /\ raw_log[k].place_id = ret[i].place_id
                             /\ HasCoordinates(raw_log[k])
                             /\ DistanceOf(raw_log[k]) <= filter_radius_m}
             IN  /\ cand # {}
                 /\ ret[i].lat = raw_log[MinOf(cand)].lat
                 /\ ret[i].lon = raw_log[MinOf(cand)].lng

\* the first result of a key lies beyond the radius, a later one within it,
\* and the row is built from the later one
C10_Witness ==
    /\ pc = "done" /\ mode = "dashboard_text"
    /\ Len(raw_log) = 2 /\ Len(ret) = 1
    /\ raw_log[1].place_id = raw_log[2].place_id
    /\ HasCoordinates(raw_log[1]) /\ HasCoordinates(raw_log[2])
    /\ DistanceOf(raw_log[1]) > filter_radius_m
    /\ ret[1].lon = raw_log[2].lng

(***************************************************************************)
(* C11. A ZERO_RESULTS response to a request of a tiled collection is not  *)
(* an error: the collection does not end with it, the search of that tile  *)
(* ends and the next request, if any, opens the next tile; a collection    *)
(* that returns has queried every tile and returns the results received,   *)
(* deduplicated by place_id in the order received.                         *)
(***************************************************************************)
ZeroResultResponses ==
    {k \in 1..Len(responses) : responses[k].status = "ZERO_RESULTS"}

\* the positions of log that hold the first occurrence of a place_id
FirstOccurrences(log) ==
    SelectSeq([i \in 1..Len(log) |-> i],
              LAMBDA i : /\ log[i].place_id # NoneV
                         /\ \A j \in 1..(i - 1) :
                                log[j].place_id # log[i].place_id)

C11_ZeroResultsContinues ==
    mode \in TiledModes =>
        \A k \in ZeroResultResponses :
            /\ pc = "error" => k < Len(responses)
            /\ k < Len(requests) =>
                   /\ requests[k + 1].tile = requests[k].tile + 1
                   /\ requests[k + 1].pagetoken = NoneV
            /\ pc = "done" =>
                   /\ \A t \in 1..Len(tile_centers) : SearchOf(t) # {}
                   /\ LET firsts == FirstOccurrences(raw_log)
                      IN  /\ Len(ret) = Len(firsts)
                          /\ \A n \in 1..Len(firsts) :
                                 /\ ret[n].place_id = raw_log[firsts[n]].place_id
                                 /\ ret[n].lat = raw_log[firsts[n]].lat
                                 /\ ret[n].lon = raw_log[firsts[n]].lng

\* the first of two tiles answered ZERO_RESULTS, the second was queried and
\* its results were returned
C11_Witness ==
    /\ pc = "done" /\ mode \in TiledModes
    /\ Len(tile_centers) = 2
    /\ responses[1].status = "ZERO_RESULTS"
    /\ requests[2].tile = 2
    /\ Len(ret) = 2

(***************************************************************************)
(* C12. The collect_places call of the dashboard's Geo Coverage mode, made *)
(* with a filter center and a filter radius, completes unless a response   *)
(* carries an error status, and every row it returns lies within the       *)
(* filter radius of the filter center.                                     *)
(***************************************************************************)
C12_GeoCoverageFiltered ==
    mode = "dashboard_geo" =>
        /\ pc = "error" => (err.text = "Geocode error" \/ FailedResponses # {})
        /\ pc = "done" =>
               \A i \in 1..Len(ret) :
                   /\ ret[i].lat # << >> /\ ret[i].lon # << >>
                   /\ haversine_m(center[1], center[2], ret[i].lat[1],
                                  ret[i].lon[1]) <= filter_radius_m

(***************************************************************************)
(* C13. For radius_m > tile_radius_m > 0 the circles of radius             *)
(* tile_radius_m around the centers generate_tile_centers returns cover    *)
(* the requested circle: every point within radius_m of the center, in the *)
(* planar approximation of the function, lies within tile_radius_m of a    *)
(* returned center.  The points tried are those of a lattice that divides  *)
(* the radius in four.                                                     *)
(***************************************************************************)
LatticePoints(radius_m) ==
    LET ticks == {(radius_m * i) \div 4 : i \in -4..4}
    IN  {p \in ticks \X ticks : p[1] * p[1] + p[2] * p[2] <= radius_m * radius_m}

\* the point p = (dx, dy), in planar metres from the original center, lies
\* within tile_radius_m of the returned center c
CoveredBy(p, c) ==
    LET ex == p[1] - planar_dx(c[2], g_args.lon, g_args.lat)
        ey == p[2] - planar_dy(c[1], g_args.lat)
    IN  ex * ex + ey * ey <= g_args.tile_radius_m * g_args.tile_radius_m

C13_TilesCoverCircle ==
    (/\ pc = "geo_done"
     /\ g_args.radius_m > g_args.tile_radius_m
     /\ g_args.tile_radius_m > 0) =>
        \A p \in LatticePoints(g_args.radius_m) :
            \E i \in 1..Len(g_ret) : CoveredBy(p, g_ret[i])

(***************************************************************************)
(* C14. A request that carries a continuation token follows, in the same   *)
(* search, the response that returned that token, and is sent no earlier   *)
(* than next_page_token_wait_sec after that response was received.         *)
(***************************************************************************)
C14_TokenAfterWait ==
    \A k \in 1..Len(requests) :
        requests[k].pagetoken # NoneV =>
            /\ k > 1
            /\ requests[k].url = requests[k - 1].url
            /\ requests[k].tile = requests[k - 1].tile
            /\ requests[k].pagetoken = responses[k - 1].token
            /\ requests[k].at - responses[k - 1].at
                   >= settings.next_page_token_wait_sec

\* a second page was asked for with the token of the first, after the wait
C14_Witness ==
    /\ Len(requests) >= 2
    /\ requests[2].pagetoken = TokenOf(1)
    /\ settings.next_page_token_wait_sec > 0
    /\ requests[2].at > responses[1].at

(***************************************************************************)
(* C15. In a tiled collection at most one request is in flight, a request  *)
(* is sent only after the response to the one before it was received, the  *)
(* tiles are queried in their order, and between the last response of a    *)
(* tile and the first request of the next at least                         *)
(* sleep_between_requests_sec elapse.                                      *)
(***************************************************************************)
InFlight == Len(requests) - Len(responses)

C15_TilesPacedOneInFlight ==
    mode \in TiledModes =>
        /\ InFlight \in {0, 1}
        /\ InFlight = 1 <=> pc = "nearby_wait"
        /\ \A k \in 2..Len(requests) :
               /\ requests[k].at >= responses[k - 1].at
               /\ requests[k].tile \in {requests[k - 1].tile,
                                         requests[k - 1].tile + 1}
               /\ requests[k].tile # requests[k - 1].tile =>
                      requests[k].at - responses[k - 1].at
                          >= settings.sleep_between_requests_sec

\* the first request of the second tile is in flight, and the client itself
\* does not sleep
C15_Witness ==
    /\ mode \in TiledModes
    /\ pc = "nearby_wait"
    /\ client.sleep_sec = 0
    /\ Len(requests) >= 2
    /\ requests[Len(requests)].tile = 2
    /\ requests[Len(requests) - 1].tile = 1
    /\ settings.sleep_between_requests_sec > 0

(***************************************************************************)
(* C16. In a tiled collection the first request of every tile carries no   *)
(* continuation token, and no request of a tile carries a token that a     *)
(* response to an earlier tile returned.                                   *)
(***************************************************************************)
C16_NoTokenAcrossTiles ==
    mode \in TiledModes =>
        \A k \in 1..Len(requests) :
            /\ (k = 1 \/ requests[k - 1].tile # requests[k].tile) =>
                   requests[k].pagetoken = NoneV
            /\ \A j \in 1..Len(responses) :
                   (requests[j].tile < requests[k].tile
                    /\ responses[j].token # NoneV) =>
                       requests[k].pagetoken # responses[j].token

\* the first tile used a token for its second page and its last response
\* returned another one, at the page limit; the second tile was opened
C16_Witness ==
    /\ mode \in TiledModes
    /\ Len(requests) >= 3
    /\ requests[2].tile = 1 /\ requests[2].pagetoken # NoneV
    /\ responses[2].token # NoneV
    /\ requests[3].tile = 2

(***************************************************************************)
(* C17, as claimed. generate_tile_centers returns for every input with     *)
(* radius_m > tile_radius_m > 0, and does not return when                  *)
(* tile_radius_m <= 0 and radius_m > tile_radius_m (radius_m >= 0).        *)
(***************************************************************************)
NeverReturnsWithoutStep ==
    [](g_args.tile_radius_m <= 0 /\ g_args.radius_m > g_args.tile_radius_m
          => pc # "grid_done")

C17_ReturnsForPositiveTile ==
    /\ (g_args.radius_m > g_args.tile_radius_m /\ g_args.tile_radius_m > 0)
           => <>(pc = "grid_done")
    /\ NeverReturnsWithoutStep

(***************************************************************************)
(* C17, amended. generate_tile_centers returns for every input with        *)
(* radius_m > tile_radius_m whose grid steps dlat and dlon are positive in *)
(* the arithmetic of the function (adding them changes cur_lat, cur_lon);  *)
(* it does not return when tile_radius_m <= 0 and radius_m >               *)
(* tile_radius_m (radius_m >= 0).                                          *)
(***************************************************************************)
C17_ReturnsWhenStepsAdvance ==
    /\ (/\ g_args.radius_m > g_args.tile_radius_m
        /\ grid_dlat(g_args) > 0
        /\ grid_dlon(g_args) > 0) => <>(pc = "grid_done")
    /\ NeverReturnsWithoutStep

\* the loops ran over several rows of a grid and the function returned
C17_Witness ==
    /\ pc = "grid_done"
    /\ g_args.radius_m > g_args.tile_radius_m
    /\ g_args.tile_radius_m > 0
    /\ cur_lat > lat_max(g_args)
    /\ Len(g_ret) >= 5

(***************************************************************************)
(* C18. collect_reviews sends its details requests in the order of the     *)
(* input places, one per place; when it returns, every place was asked     *)
(* for, every response had status OK, and places_enriched holds one row    *)
(* per input place, in the same order and with the same place_id; a        *)
(* response with another status ends the call in an error that carries the *)
(* status, nothing is returned and no request follows.                     *)
(***************************************************************************)
C18_ReviewsOnePerPlace ==
    mode = "reviews" =>
        /\ Len(requests) <= Len(places)
        /\ \A k \in 1..Len(requests) :
               /\ requests[k].url = "details"
               /\ requests[k].place_id = places[k].place_id
        /\ pc = "reviews_done" =>
               /\ Len(requests) = Len(places)
               /\ Len(responses) = Len(places)
               /\ \A k \in 1..Len(responses) : responses[k].status = "OK"
               /\ Len(places_enriched) = Len(places)
               /\ \A i \in 1..Len(places) :
                      places_enriched[i].place_id = places[i].place_id
        /\ \A k \in 1..Len(responses) :
               responses[k].status # "OK" =>
                   /\ pc = "reviews_error"
                   /\ err.type = "RuntimeError"
                   /\ err.status = responses[k].status
                   /\ k = Len(requests)
        /\ (\A k \in 1..Len(responses) : responses[k].status = "OK") =>
               pc # "reviews_error"

\* the full list was enriched: distinct places and one of them twice, with a
\* name and a location taken from the details
C18_Witness ==
    /\ mode = "reviews" /\ pc = "reviews_done"
    /\ Len(places) = 3
    /\ places[1].place_id # places[2].place_id
    /\ places[3].place_id = places[1].place_id
    /\ places_enriched[2].name # places[2].name
    /\ places_enriched[1].lat # places[1].lat
    /\ reviews_rows # << >>

====
